---- MODULE Spec2Model ----
(***************************************************************************)
(* A model of the collection-and-normalisation pipeline of the Madshus     *)
(* products repository: ProductCollector (collect_products,                *)
(* collect_product, _create_product, _update_product, the _extract_*       *)
(* normalisers and _clean_html) running against one SQLAlchemy session     *)
(* (autocommit=False, autoflush=False) and the catalog API.                *)
(***************************************************************************)
EXTENDS Integers, Sequences, FiniteSets, TLC

(***************************************************************************)
(* JSON values of the API payloads.  A value is a record whose field k is  *)
(* its kind and whose field v is its content:                              *)
(*   null            JSON null / Python None                               *)
(*   str             a string treated as a token (ids, titles, prices)     *)
(*   text            a string given character by character (the fields     *)
(*                   that may hold HTML: description, content)             *)
(*   num             a number                                              *)
(*   list            a list of values                                      *)
(*   obj             an object: a function from its keys to values         *)
(***************************************************************************)
JNull == [k |-> "null", v |-> ""]
JStr(s) == [k |-> "str", v |-> s]
JText(s) == [k |-> "text", v |-> s]
JNum(n) == [k |-> "num", v |-> n]
JList(xs) == [k |-> "list", v |-> xs]
JObj(f) == [k |-> "obj", v |-> f]

\* Python's None as the value of a column or of a function result.
None == JNull

\* Python truthiness of a value (`if x:` / `not x`).
Truthy(j) ==
    CASE j.k = "null" -> FALSE
      [] j.k = "str" -> j.v # ""
      [] j.k = "text" -> j.v # <<>>
      [] j.k = "num" -> j.v # 0
      [] j.k = "list" -> j.v # <<>>
      [] j.k = "obj" -> DOMAIN j.v # {}

\* dict.get(key, default) on an object.
Get(o, key, default) == IF key \in DOMAIN o.v THEN o.v[key] ELSE default

\* The outcome of a call: a value, or an exception raised.
Ok(x) == [ok |-> TRUE, v |-> x]
Raise == [ok |-> FALSE, v |-> "Exception"]

\* A local variable: F applied to the value of x, x computed once (the
\* value of `name = x` followed by the statements F that use name).
Bind(x, F(_)) == CHOOSE y \in {F(name) : name \in {x}} : TRUE

(***************************************************************************)
(* _clean_html: re.sub("<.*?>", "", html), then re.sub(r"\s+", " ", text), *)
(* then strip().  "." does not match a line break, so a "<" whose first    *)
(* following ">" lies behind a line break starts no match.                 *)
(***************************************************************************)
IsSpace(c) == c \in {" ", "\n"}

\* The index of the ">" that closes a match of "<.*?>" starting at s[1],
\* or 0 when no match starts there.
TagEnd(s) ==
    LET gts == {j \in 2..Len(s) : s[j] = ">"}
    IN  IF s = <<>> \/ s[1] # "<" \/ gts = {} THEN 0
        ELSE LET j == CHOOSE x \in gts : \A y \in gts : x <= y
             IN  IF \A i \in 2..(j - 1) : s[i] # "\n" THEN j ELSE 0

RECURSIVE RemoveTags(_)
RemoveTags(s) ==
    IF s = <<>> THEN <<>>
    ELSE IF TagEnd(s) > 0 THEN RemoveTags(SubSeq(s, TagEnd(s) + 1, Len(s)))
    ELSE <<Head(s)>> \o RemoveTags(Tail(s))

\* re.sub(r"\s+", " ", text): every maximal run of whitespace becomes " ".
RECURSIVE CollapseSpace(_)
CollapseSpace(s) ==
    IF s = <<>> THEN <<>>
    ELSE IF IsSpace(Head(s))
         THEN IF Len(s) > 1 /\ IsSpace(s[2])
              THEN CollapseSpace(Tail(s))
              ELSE <<" ">> \o CollapseSpace(Tail(s))
         ELSE <<Head(s)>> \o CollapseSpace(Tail(s))

\* str.strip()
RECURSIVE StripLeft(_)
StripLeft(s) ==
    IF s # <<>> /\ IsSpace(Head(s)) THEN StripLeft(Tail(s)) ELSE s

RECURSIVE StripRight(_)
StripRight(s) ==
    IF s # <<>> /\ IsSpace(s[Len(s)]) THEN StripRight(SubSeq(s, 1, Len(s) - 1)) ELSE s

Strip(s) == StripRight(StripLeft(s))

\* _clean_html on the characters of a string.
CleanText(s) ==
    Bind(RemoveTags(s), LAMBDA text :
    Bind(CollapseSpace(text), LAMBDA collapsed : Strip(collapsed)))

\* _clean_html(html): "" for a falsy argument, TypeError from re.sub for a
\* truthy argument that is no string.
clean_html(html) ==
    IF ~Truthy(html) THEN Ok(JText(<<>>))
    ELSE IF html.k = "text" THEN Ok(JText(CleanText(html.v)))
    ELSE Raise

(***************************************************************************)
(* Iteration (`for x in j`) over a payload value.  A list yields its       *)
(* items, a dict its keys, a string its characters; None and numbers are   *)
(* not iterable (TypeError).  The characters of a token are not modelled:  *)
(* a non-empty token yields one str item (every loop below raises on a     *)
(* str item at once).                                                      *)
(***************************************************************************)
RECURSIVE SetToSeq(_)
SetToSeq(S) ==
    IF S = {} THEN <<>>
    ELSE LET x == CHOOSE y \in S : TRUE IN <<x>> \o SetToSeq(S \ {x})

Items(j) ==
    CASE j.k = "list" -> Ok(j.v)
      [] j.k = "obj" -> Ok([i \in 1..Cardinality(DOMAIN j.v) |-> JStr(SetToSeq(DOMAIN j.v)[i])])
      [] j.k = "str" -> Ok(IF j.v = "" THEN <<>> ELSE <<JStr(j.v)>>)
      [] j.k = "text" -> Ok([i \in 1..Len(j.v) |-> JStr(j.v[i])])
      [] OTHER -> Raise

\* isinstance(x, str)
IsStr(j) == j.k \in {"str", "text"}

\* Pydantic's check of a field typed Optional[Union[str, List[str]]].
IsStrOrStrListOrNone(j) ==
    \/ j.k = "null"
    \/ IsStr(j)
    \/ j.k = "list" /\ \A i \in 1..Len(j.v) : IsStr(j.v[i])

(***************************************************************************)
(* _extract_specs: Ok(list of ProductSpecSchema) or an exception.          *)
(***************************************************************************)
RECURSIVE extract_specs_loop(_, _)
extract_specs_loop(items, specs) ==
    IF items = <<>> THEN Ok(specs)
    ELSE Bind(Head(items), LAMBDA spec :
         IF spec.k # "obj" THEN Raise
         ELSE LET spec_id == Get(spec, "id", JStr(""))
                  title == Get(spec, "title", JStr(""))
                  value == Get(spec, "value", JStr(""))
              IN  IF Truthy(spec_id) /\ Truthy(title)
                  THEN IF IsStr(spec_id) /\ IsStr(title) /\ IsStrOrStrListOrNone(value)
                       THEN extract_specs_loop(Tail(items),
                                Append(specs, [spec_id |-> spec_id, title |-> title, value |-> value]))
                       ELSE Raise
                  ELSE extract_specs_loop(Tail(items), specs))

extract_specs(product_data) ==
    LET updated_product_specs == Items(Get(product_data, "updated_product_specs", JList(<<>>)))
    IN  IF updated_product_specs.ok THEN extract_specs_loop(updated_product_specs.v, <<>>) ELSE Raise

(***************************************************************************)
(* _extract_prices: Ok(dict region -> price) or an exception (.items() of  *)
(* a value that is no dict).                                               *)
(***************************************************************************)
extract_prices(product_data) ==
    LET prices_data == Get(product_data, "prices", JObj(<<>>))
    IN  IF prices_data.k = "obj" THEN Ok(prices_data.v) ELSE Raise

(***************************************************************************)
(* _extract_technologies: a list or a single mapping; any other shape      *)
(* gives the empty list.                                                   *)
(***************************************************************************)
RECURSIVE extract_technologies_loop(_, _)
extract_technologies_loop(items, technologies) ==
    IF items = <<>> THEN Ok(technologies)
    ELSE Bind(Head(items), LAMBDA tech :
         IF tech.k # "obj" THEN Raise
         ELSE LET title == Get(tech, "title", JStr("")) IN
              Bind(clean_html(Get(tech, "content", JStr(""))), LAMBDA content :
                  IF ~content.ok THEN Raise
                  ELSE IF Truthy(title)
                  THEN IF IsStr(title)
                       THEN extract_technologies_loop(Tail(items),
                                Append(technologies, [title |-> title, content |-> content.v]))
                       ELSE Raise
                  ELSE extract_technologies_loop(Tail(items), technologies)))

\* _extract_technologies without the branch for a single mapping
\* (a faulty variant without lines 405-415, to compare with)
extract_technologies_of_list(product_data) ==
    LET details == Get(product_data, "details", JObj(<<>>)) IN
    IF details.k # "obj" THEN Raise
    ELSE LET technology_data == Get(details, "technology", JList(<<>>)) IN
         CASE technology_data.k = "list" -> extract_technologies_loop(technology_data.v, <<>>)
           [] OTHER -> Ok(<<>>)

extract_technologies(product_data) ==
    LET details == Get(product_data, "details", JObj(<<>>)) IN
    IF details.k # "obj" THEN Raise
    ELSE LET technology_data == Get(details, "technology", JList(<<>>)) IN
         CASE technology_data.k = "list" -> extract_technologies_loop(technology_data.v, <<>>)
           [] technology_data.k = "obj" -> extract_technologies_loop(<<technology_data>>, <<>>)
           [] OTHER -> Ok(<<>>)

(***************************************************************************)
(* _extract_features: one ProductFeatureSchema per item with a truthy      *)
(* content, carrying its group's title.                                    *)
(***************************************************************************)
\* The inner loop of _extract_features appending every item, whatever its
\* content (a faulty variant without the test of line 442, to compare with)
RECURSIVE extract_features_group_all(_, _, _)
extract_features_group_all(group, group_title, features) ==
    IF group = <<>> THEN Ok(features)
    ELSE Bind(Head(group), LAMBDA feature :
         IF feature.k # "obj" THEN Raise
         ELSE LET content == Get(feature, "content", JStr("")) IN
              IF IsStr(content) /\ (group_title.k = "null" \/ IsStr(group_title))
              THEN extract_features_group_all(Tail(group), group_title,
                       Append(features, [group_title |-> group_title, content |-> content]))
              ELSE Raise)

RECURSIVE extract_features_group(_, _, _)
extract_features_group(group, group_title, features) ==
    IF group = <<>> THEN Ok(features)
    ELSE Bind(Head(group), LAMBDA feature :
         IF feature.k # "obj" THEN Raise
         ELSE LET content == Get(feature, "content", JStr("")) IN
              IF Truthy(content)
              THEN IF IsStr(content) /\ (group_title.k = "null" \/ IsStr(group_title))
                   THEN extract_features_group(Tail(group), group_title,
                            Append(features, [group_title |-> group_title, content |-> content]))
                   ELSE Raise
              ELSE extract_features_group(Tail(group), group_title, features))

RECURSIVE extract_features_loop(_, _)
extract_features_loop(feature_details, features) ==
    IF feature_details = <<>> THEN Ok(features)
    ELSE Bind(Head(feature_details), LAMBDA feature_group :
         IF feature_group.k # "obj" THEN Raise
         ELSE LET group_title == Get(feature_group, "group_title", JStr(""))
                  group == Items(Get(feature_group, "group", JList(<<>>)))
              IN  IF ~group.ok THEN Raise
                  ELSE Bind(extract_features_group(group.v, group_title, features), LAMBDA r :
                       IF r.ok THEN extract_features_loop(Tail(feature_details), r.v) ELSE Raise))

extract_features(product_data) ==
    LET details == Get(product_data, "details", JObj(<<>>)) IN
    IF details.k # "obj" THEN Raise
    ELSE LET feature_details == Items(Get(details, "feature_details", JList(<<>>)))
         IN  IF feature_details.ok THEN extract_features_loop(feature_details.v, <<>>) ELSE Raise

(***************************************************************************)
(* The database and the SQLAlchemy session (self.db).                      *)
(*                                                                         *)
(* A database state holds the products table, a function from the uids     *)
(* (primary key) of its rows to the rows, and the four child tables, each  *)
(* a function from product_uid to the rows of that product in insertion    *)
(* order.  The surrogate keys (id) of the child rows are left out.         *)
(*                                                                         *)
(* The session holds                                                       *)
(*   committed   the database as committed,                                *)
(*   txn         the database as seen inside the open transaction: the     *)
(*               committed state and the statements emitted since,         *)
(*   new         the objects added with db.add and not yet flushed,        *)
(*   dirty       the attributes of loaded Product objects assigned to      *)
(*               and not yet flushed,                                      *)
(*   state       "active", or "deactive" after a failed flush: the         *)
(*               transaction is rolled back and every later use of the     *)
(*               session raises PendingRollbackError until rollback() is   *)
(*               called.                                                   *)
(* The session is made with autocommit=False, autoflush=False and the      *)
(* default expire_on_commit; the collector never calls rollback().         *)
(***************************************************************************)
Uids == {"u1", "u2"}

ChildTables == {"specs", "prices", "technologies", "features"}

NoRows == [u \in Uids |-> <<>>]

EmptyDb ==
    [products |-> <<>>, specs |-> NoRows, prices |-> NoRows,
     technologies |-> NoRows, features |-> NoRows]

SessionLocal(database) ==
    [committed |-> database, txn |-> database, new |-> <<>>, dirty |-> <<>>,
     state |-> "active"]

\* A value sqlite3 can bind as a statement parameter.
Bindable(j) == j.k \in {"null", "str", "text", "num"}

\* The constraints of the products table on the rows `products`:
\* title, display_title and url are NOT NULL, url is UNIQUE.
ProductsConstraintsOk(products) ==
    /\ \A u \in DOMAIN products :
           /\ \A c \in DOMAIN products[u] : Bindable(products[u][c])
           /\ products[u].title.k # "null"
           /\ products[u].display_title.k # "null"
           /\ products[u].url.k # "null"
    /\ \A u1 \in DOMAIN products : \A u2 \in DOMAIN products :
           u1 # u2 => products[u1].url # products[u2].url

\* The UPDATE statements of a flush, one per dirty Product in primary-key
\* order, each checked against the constraints when it is executed.
RECURSIVE FlushUpdates(_, _, _)
FlushUpdates(products, dirty, todo) ==
    IF todo = <<>> THEN Ok(products)
    ELSE Bind([products EXCEPT ![Head(todo)] = dirty[Head(todo)]], LAMBDA after :
         IF ProductsConstraintsOk(after)
         THEN FlushUpdates(after, dirty, Tail(todo))
         ELSE Raise)

\* The INSERT statements of a flush, in the order of db.add, products
\* before child rows (the order of the tables' dependencies).
RECURSIVE FlushInserts(_, _)
FlushInserts(database, new) ==
    IF new = <<>> THEN Ok(database)
    ELSE Bind(Head(new), LAMBDA o :
         IF o.tbl = "products"
         THEN Bind((o.uid :> o.row) @@ database.products, LAMBDA products :
              IF o.uid \notin DOMAIN database.products /\ ProductsConstraintsOk(products)
              THEN FlushInserts([database EXCEPT !.products = products], Tail(new))
              ELSE Raise)
         ELSE IF \A c \in DOMAIN o.row : Bindable(o.row[c])
              THEN FlushInserts([database EXCEPT ![o.tbl][o.uid] = Append(@, o.row)], Tail(new))
              ELSE Raise)

SortedUids(S) == SelectSeq(<<"u1", "u2">>, LAMBDA u : u \in S)

ProductsFirst(new) ==
    SelectSeq(new, LAMBDA o : o.tbl = "products") \o SelectSeq(new, LAMBDA o : o.tbl # "products")

\* The session after an exception inside flush: the transaction is rolled
\* back, the added objects are expunged, the loaded ones expired, and the
\* session waits for rollback().
FlushFailed(s) ==
    [s EXCEPT !.txn = s.committed, !.new = <<>>, !.dirty = <<>>, !.state = "deactive"]

\* db.flush(): [ok, s], ok = FALSE when it raised.
flush(db) ==
    Bind(db, LAMBDA s :
    IF s.state # "active" THEN [ok |-> FALSE, s |-> s]
    ELSE Bind(FlushUpdates(s.txn.products, s.dirty, SortedUids(DOMAIN s.dirty)), LAMBDA upd :
         IF ~upd.ok THEN [ok |-> FALSE, s |-> FlushFailed(s)]
         ELSE Bind(FlushInserts([s.txn EXCEPT !.products = upd.v], ProductsFirst(s.new)), LAMBDA ins :
              IF ~ins.ok THEN [ok |-> FALSE, s |-> FlushFailed(s)]
              ELSE [ok |-> TRUE, s |-> [s EXCEPT !.txn = ins.v, !.new = <<>>, !.dirty = <<>>]])))

\* db.commit(): flush, then COMMIT.
commit(s) ==
    Bind(flush(s), LAMBDA f :
    IF f.ok THEN [ok |-> TRUE, s |-> [f.s EXCEPT !.committed = f.s.txn]]
    ELSE f)

\* db.add(obj)
add(s, tbl, uid, row) == [s EXCEPT !.new = Append(@, [tbl |-> tbl, uid |-> uid, row |-> row])]

\* db.query(T).filter(T.product_uid == uid).delete(): a DELETE statement
\* executed at once in the transaction; objects only added are untouched.
delete(s, tbl, uid) == [s EXCEPT !.txn[tbl][uid] = <<>>]

\* The attributes of the loaded Product object of uid.
Loaded(s, uid) == IF uid \in DOMAIN s.dirty THEN s.dirty[uid] ELSE s.txn.products[uid]

\* db.close() / a new session of the same database.
close(s) == SessionLocal(s.committed)

(***************************************************************************)
(* ProductCollector: the rows written for a payload.                       *)
(***************************************************************************)
\* ", ".join(xs)
RECURSIVE Join(_)
Join(xs) ==
    IF xs = <<>> THEN ""
    ELSE IF Len(xs) = 1 THEN xs[1].v
    ELSE xs[1].v \o ", " \o Join(Tail(xs))

\* spec.value if isinstance(spec.value, str) else ", ".join(spec.value)
\* (a faulty variant of line 217 that joins every list, to compare with)
SpecValueJoined(value) ==
    IF IsStr(value) THEN value
    ELSE IF value.k = "list" THEN JStr(Join(value.v))
    ELSE None

\* spec.value if isinstance(spec.value, str) else ", ".join(spec.value) if spec.value else None
SpecValue(value) ==
    IF IsStr(value) THEN value
    ELSE IF Truthy(value) THEN JStr(Join(value.v))
    ELSE None

SpecRows(specs) ==
    [i \in 1..Len(specs) |->
        Bind(specs[i], LAMBDA spec :
            [spec_id |-> spec.spec_id, title |-> spec.title, value |-> SpecValue(spec.value)])]

\* for region, price in prices.items(): if price: ...
PriceRows(prices) ==
    Bind(SelectSeq(SetToSeq(DOMAIN prices), LAMBDA r : Truthy(prices[r])), LAMBDA regions :
    [i \in 1..Len(regions) |-> [region |-> JStr(regions[i]), price |-> prices[regions[i]]]])

AddAll(s, tbl, uid, objects) ==
    Bind(objects, LAMBDA rows :
    [s EXCEPT !.new = @ \o [i \in 1..Len(rows) |-> [tbl |-> tbl, uid |-> uid, row |-> rows[i]]]])

\* The outcome of _create_product / _update_product: ok = FALSE when an
\* exception left it, s the session it leaves behind.
Returned(s) == [ok |-> TRUE, s |-> s]
Raised(s) == [ok |-> FALSE, s |-> s]

\* "Extract and create specifications ... prices ... technologies ...
\* features", then "Commit changes": the text shared by _create_product
\* (lines 210-253) and _update_product (lines 281-324).
write_children(s, uid, product_data) ==
    Bind(extract_specs(product_data), LAMBDA specs :
    IF ~specs.ok THEN Raised(s) ELSE
    Bind(AddAll(s, "specs", uid, SpecRows(specs.v)), LAMBDA s1 :
    Bind(extract_prices(product_data), LAMBDA prices :
    IF ~prices.ok THEN Raised(s1) ELSE
    Bind(AddAll(s1, "prices", uid, PriceRows(prices.v)), LAMBDA s2 :
    Bind(extract_technologies(product_data), LAMBDA technologies :
    IF ~technologies.ok THEN Raised(s2) ELSE
    Bind(AddAll(s2, "technologies", uid, technologies.v), LAMBDA s3 :
    Bind(extract_features(product_data), LAMBDA features :
    IF ~features.ok THEN Raised(s3) ELSE
    Bind(AddAll(s3, "features", uid, features.v), LAMBDA s4 :
    commit(s4)))))))))

\* _create_product(product_data)
create_product(s, product_data) ==
    LET uid == Get(product_data, "uid", None) IN
    Bind(clean_html(Get(product_data, "description", JStr(""))), LAMBDA description :
        IF ~description.ok THEN Raised(s) ELSE
        LET product == [uid |-> uid,
                        title |-> Get(product_data, "title", JStr("")),
                        display_title |-> Get(product_data, "display_title", JStr("")),
                        url |-> Get(product_data, "url", JStr("")),
                        description |-> description.v,
                        tagline |-> Get(product_data, "tagline", JStr(""))]
        IN  Bind(flush(add(s, "products", uid.v, product)), LAMBDA f :
            IF ~f.ok THEN Raised(f.s) ELSE write_children(f.s, uid.v, product_data)))

\* An assignment to attributes of the loaded Product object of uid.
Assign(s, uid, product) ==
    IF product = s.txn.products[uid]
    THEN [s EXCEPT !.dirty = [u \in DOMAIN s.dirty \ {uid} |-> s.dirty[u]]]
    ELSE [s EXCEPT !.dirty = (uid :> product) @@ s.dirty]

\* _update_product without its DELETE statements (a faulty variant of
\* lines 276-279, to compare with).
keep_children(s, uid) == s

\* The four DELETE statements of _update_product.
delete_children(s, uid) ==
    delete(delete(delete(delete(s, "specs", uid), "prices", uid), "technologies", uid), "features", uid)

\* _update_product(product, product_data), product the loaded object of uid
update_product(s, uid, product_data) ==
    Bind(Loaded(s, uid), LAMBDA product :
    Bind([product EXCEPT !.title = Get(product_data, "title", @),
                         !.display_title = Get(product_data, "display_title", @),
                         !.url = Get(product_data, "url", @)], LAMBDA p1 :
    Bind(clean_html(Get(product_data, "description", product.description)), LAMBDA description :
        IF ~description.ok THEN Raised(Assign(s, uid, p1)) ELSE
        Bind([p1 EXCEPT !.description = description.v,
                        !.tagline = Get(product_data, "tagline", @)], LAMBDA p2 :
        Bind(delete_children(Assign(s, uid, p2), uid), LAMBDA s1 :
            write_children(s1, uid, product_data))))))

(***************************************************************************)
(* GraphQLClient.execute, seen from its caller: the HTTP reply decides     *)
(* whether it returns the decoded body or raises.  The field http of a     *)
(* reply is "error" when requests.post raised (no connection), "status"    *)
(* when the status makes raise_for_status raise, else "ok".                *)
(***************************************************************************)
\* An exception: its class and the errors it carries.
RaiseOf(class, errors) == [ok |-> FALSE, v |-> [class |-> class, errors |-> errors]]

\* requests.exceptions.RequestException, logged and raised again (lines 70-72)
RequestException == RaiseOf("RequestException", None)

\* raise GraphQLError(data["errors"])
GraphQLError(errors) == RaiseOf("GraphQLError", errors)

\* `"errors" in data` or `data["errors"]` on a value that allows neither
TypeError == RaiseOf("TypeError", None)

execute(reply) ==
    IF reply.http # "ok" THEN RequestException
    ELSE Bind(reply.body, LAMBDA data :
         CASE data.k = "obj" ->
                  IF "errors" \in DOMAIN data.v THEN GraphQLError(data.v.errors) ELSE Ok(data)
           [] data.k = "list" ->
                  IF \E i \in DOMAIN data.v : data.v[i] = JStr("errors") THEN TypeError ELSE Ok(data)
           [] data.k = "str" -> IF data.v = "errors" THEN TypeError ELSE Ok(data)
           [] OTHER -> TypeError)

get_product(reply) == execute(reply)

get_paginated_products(reply) == execute(reply)

\* collect_product(url), given the reply to its detail query:
\* [uid, s], uid the value returned (None when the product was skipped).
collect_product(s, reply) ==
    LET skip == [uid |-> None, s |-> s] IN
    Bind(get_product(reply), LAMBDA response :
        IF ~response.ok \/ response.v.k # "obj" THEN skip ELSE
        LET data == Get(response.v, "data", JObj(<<>>)) IN
        IF data.k # "obj" THEN skip ELSE
        Bind(Get(data, "product", JObj(<<>>)), LAMBDA product_data :
        IF ~Truthy(product_data) \/ product_data.k # "obj" THEN skip ELSE
        Bind(Get(product_data, "uid", None), LAMBDA uid :
        IF ~Truthy(uid) THEN skip
        ELSE IF s.state # "active" THEN skip
        ELSE Bind(IF uid.v \in DOMAIN s.txn.products
                  THEN update_product(s, uid.v, product_data)
                  ELSE create_product(s, product_data),
                  LAMBDA r : [uid |-> IF r.ok THEN uid ELSE None, s |-> r.s]))))

(***************************************************************************)
(* The catalog API: the replies it may give.  Every fetch draws its reply  *)
(* from these.                                                             *)
(***************************************************************************)
HttpError == [http |-> "error", body |-> JNull]
HttpOk(body) == [http |-> "ok", body |-> body]

Errors == JObj([errors |-> JList(<<JStr("boom")>>)])

Detail(product) == HttpOk(JObj([data |-> JObj([product |-> product])]))

T(s) == JText(s)

\* uid u1, first version: two specs (one with a list value), a blank price,
\* technology as a single mapping, one feature group with an empty item.
SkiV1 ==
    JObj([uid |-> JStr("u1"), title |-> JStr("Ski"), display_title |-> JStr("Ski X"),
          url |-> JStr("/a"), description |-> T(<<"<", "p", ">", "d", " ", "\n", "e">>),
          tagline |-> JStr("fast"),
          updated_product_specs |-> JList(<<
              JObj([id |-> JStr("len"), title |-> JStr("Length"), value |-> JStr("170cm")]),
              JObj([id |-> JStr("use"), title |-> JStr("Use"),
                    value |-> JList(<<JStr("race"), JStr("tour")>>)]),
              JObj([id |-> JStr(""), title |-> JStr("Hidden"), value |-> JStr("x")])>>),
          prices |-> JObj([no |-> JStr("100 NOK"), gb |-> JStr("")]),
          details |-> JObj([
              technology |-> JObj([title |-> JStr("Core"), content |-> T(<<"<", "b", ">", "C">>)]),
              feature_details |-> JList(<<
                  JObj([group_title |-> JStr("Base"),
                        group |-> JList(<<JObj([content |-> T(<<"<", "i", ">", "f">>)]),
                                          JObj([content |-> T(<<>>)])>>)])>>)])])

\* uid u1, second version: one spec, no tagline key, no details.
SkiV2 ==
    JObj([uid |-> JStr("u1"), title |-> JStr("Ski 2"), display_title |-> JStr("Ski X"),
          url |-> JStr("/a"), description |-> T(<<"d">>),
          updated_product_specs |-> JList(<<
              JObj([id |-> JStr("len"), title |-> JStr("Length"), value |-> JStr("180cm")])>>),
          prices |-> JObj([no |-> JStr("90 NOK")])])

\* uid u1 with a technology list holding null: _extract_technologies raises
\* after the specs and prices were added.
SkiBroken ==
    JObj([uid |-> JStr("u1"), title |-> JStr("Ski 3"), display_title |-> JStr("Ski X"),
          url |-> JStr("/a"), description |-> T(<<"d">>), tagline |-> JStr("fast"),
          updated_product_specs |-> JList(<<
              JObj([id |-> JStr("cmb"), title |-> JStr("Camber"), value |-> JStr("low")])>>),
          prices |-> JObj([se |-> JStr("95 SEK")]),
          details |-> JObj([technology |-> JList(<<JNull>>)])])

\* uid u2, well formed, technology as a list, the price of region gb one
\* space.
Pole ==
    JObj([uid |-> JStr("u2"), title |-> JStr("Pole"), display_title |-> JStr("Pole Y"),
          url |-> JStr("/b"), description |-> T(<<>>), tagline |-> JNull,
          updated_product_specs |-> JList(<<
              JObj([id |-> JStr("len"), title |-> JStr("Length"), value |-> JStr("150cm")])>>),
          prices |-> JObj([no |-> JStr("50 NOK"), gb |-> T(<<" ">>)]),
          details |-> JObj([
              technology |-> JList(<<JObj([title |-> JStr("Grip"), content |-> T(<<"g">>)])>>)])])

\* uid u2 with title null: products.title is NOT NULL, the flush fails.
PoleNoTitle ==
    JObj([uid |-> JStr("u2"), title |-> JNull, display_title |-> JStr("Pole Y"),
          url |-> JStr("/b"),
          updated_product_specs |-> JList(<<
              JObj([id |-> JStr("len"), title |-> JStr("Length"), value |-> JStr("150cm")])>>)])

\* A product without uid.
NoUid == JObj([title |-> JStr("Wax"), url |-> JStr("/c")])

DetailReplies ==
    << HttpError, Detail(JNull), Detail(NoUid),
       Detail(SkiV1), Detail(SkiV2), Detail(SkiBroken), Detail(Pole), Detail(PoleNoTitle) >>

\* A grid response: the entries of one page and the total it reports.
GridOf(products, total) ==
    HttpOk(JObj([data |-> JObj([paginatedProductGrid |->
                     JObj([products |-> products, total |-> JNum(total)])])]))

Grid(products) == GridOf(products, 2)

Entry(url) == JObj([url |-> JStr(url), title |-> JStr("t")])

\* The grids: a URL listed twice and an entry without url, on a page of a
\* category that reports 31 entries; an entry that is no object.
GridReplies ==
    << HttpError, HttpOk(Errors), HttpOk(JObj([data |-> JNull])),
       Grid(JList(<<>>)),
       GridOf(JList(<<Entry("/a"), JObj([title |-> JStr("t")]), Entry("/a"), Entry("/b")>>), 31),
       Grid(JList(<<Entry("/b"), JNull, Entry("/a")>>)) >>

(***************************************************************************)
(* Bounds of the model.                                                    *)
(***************************************************************************)
\* The longest category list of a run (the default list is range(1, 301)).
MaxCats == 2
\* The largest limit a caller gives.
MaxLimit == 2
\* The number of calls of collect_products.
MaxRuns == 2

\* categories: list(range(1, n + 1))
CategoryLists == {[i \in 1..n |-> i] : n \in 0..MaxCats}

\* limit: None or a number
Limits == {None} \cup {JNum(n) : n \in 0..MaxLimit}

\* The URLs of the grid entries.
Urls == {"/a", "/b"}

(***************************************************************************)
(* The state: the position of collect_products in its two loops, its       *)
(* locals, the session of the collector, and the history of the run that   *)
(* the properties below speak about.                                       *)
(***************************************************************************)
VARIABLES
    pc,              \* "Idle", "CategoryLoop", "ProductLoop" or "Done" ("Raised": an
                     \* exception left collect_products, which the code rules out)
    run,             \* the number of calls of collect_products so far
    categories,      \* the argument categories
    limit,           \* the argument limit
    catIdx,          \* the position in categories of the `for category` loop
    products_data,   \* the grid entries of the current category
    prodIdx,         \* the position in products_data of the `for product_data` loop
    collected_uids,  \* Set[str]
    product_urls,    \* Set[str]
    result,          \* the list returned by the last call
    session,         \* self.db
    \* History of the current run:
    fetched,         \* the categories whose grid query was issued, in order
    queries,         \* the query strings of the grid queries issued, in order
    grid_errors,     \* the positions in categories whose grid fetch failed
    calls,           \* per URL, the number of calls of collect_product
    returned,        \* the uids returned by collect_product, in order
    last,            \* the last call of collect_product
    attempt,         \* per uid, the committed rows before a failed upsert
    written,         \* the uids whose rows a commit of this run wrote
    \* The API across runs:
    rec,             \* the replies of this run are kept in tape
    replay,          \* this run gets the replies of the run before it
    tape,            \* the replies kept, by category position and by URL
    before,          \* the committed database when a replaying run began
    \* One call of a method on its own:
    fn,              \* the method called ("" when none is)
    arg,             \* its argument
    done,            \* it has returned or raised
    out,             \* what it returned or raised: Ok(value) or Raise
    posts            \* the number of calls of requests.post it made

loop == <<pc, run, categories, limit, catIdx, products_data, prodIdx,
          collected_uids, product_urls, result>>
history == <<fetched, queries, grid_errors, calls, returned, last, attempt, written>>
api == <<rec, replay, tape, before>>
called == <<fn, arg, done, out, posts>>
vars == <<loop, session, history, api, called>>

NoCall == [url |-> "", d |-> 0, uid |-> None, existed |-> FALSE]
NoTape == [grid |-> [i \in 1..MaxCats |-> 0], detail |-> [u \in Urls |-> 0]]

\* The rows of uid in a database state.
Rows(database, uid) ==
    [product |-> IF uid \in DOMAIN database.products THEN <<database.products[uid]>> ELSE <<>>,
     specs |-> database.specs[uid],
     prices |-> database.prices[uid],
     technologies |-> database.technologies[uid],
     features |-> database.features[uid]]

\* No method is called on its own.
NoMethod ==
    /\ fn = ""
    /\ arg = None
    /\ done = FALSE
    /\ out = Raise
    /\ posts = 0

\* The collector constructed on a new session of an empty database.
Constructed ==
    /\ pc = "Idle"
    /\ run = 0
    /\ categories = <<>>
    /\ limit = None
    /\ catIdx = 0
    /\ products_data = <<>>
    /\ prodIdx = 0
    /\ collected_uids = {}
    /\ product_urls = {}
    /\ result = <<>>
    /\ session = SessionLocal(EmptyDb)
    /\ fetched = <<>>
    /\ queries = <<>>
    /\ grid_errors = {}
    /\ calls = [u \in Urls |-> 0]
    /\ returned = <<>>
    /\ last = NoCall
    /\ attempt = [u \in Uids |-> <<>>]
    /\ written = {}
    /\ rec = FALSE
    /\ replay = FALSE
    /\ tape = NoTape
    /\ before = EmptyDb

Init == Constructed /\ NoMethod

\* `limit is not None and len(collected_uids) >= limit` (a variant of
\* lines 97 and 118 that takes 0 for a limit, to compare with)
LimitReachedAtZero == limit # None /\ Cardinality(collected_uids) >= limit.v

\* `limit and len(collected_uids) >= limit`
LimitReached == Truthy(limit) /\ Cardinality(collected_uids) >= limit.v

\* list(collected_uids) if the set kept one element per occurrence
\* (a faulty variant of line 138, to compare with)
ListsWithRepeats(S) ==
    {q \in [1..2 * Cardinality(S) -> S] : \A x \in S : \E i \in DOMAIN q : q[i] = x}

\* list(collected_uids): the elements of the set in some order
ListsOf(S) == {q \in [1..Cardinality(S) -> S] : \A x \in S : \E i \in DOMAIN q : q[i] = x}

\* The locals of collect_products at the first loop test.
Begin ==
    /\ pc' = "CategoryLoop"
    /\ run' = run + 1
    /\ catIdx' = 1
    /\ products_data' = <<>>
    /\ prodIdx' = 0
    /\ collected_uids' = {}
    /\ product_urls' = {}
    /\ result' = <<>>
    /\ fetched' = <<>>
    /\ queries' = <<>>
    /\ grid_errors' = {}
    /\ calls' = [u \in Urls |-> 0]
    /\ returned' = <<>>
    /\ last' = NoCall
    /\ attempt' = [u \in Uids |-> <<>>]
    /\ written' = {}
    /\ UNCHANGED <<session, called>>

\* A call collect_products(categories, limit).
Start ==
    /\ pc \in {"Idle", "Done"}
    /\ run < MaxRuns
    /\ \E cs \in CategoryLists, l \in Limits :
           /\ categories' = cs
           /\ limit' = l
    /\ rec' \in IF run + 1 < MaxRuns THEN BOOLEAN ELSE {FALSE}
    /\ replay' = FALSE
    /\ tape' = NoTape
    /\ before' = EmptyDb
    /\ Begin

\* The same call once more, the API replying as it did to the run before.
StartAgain ==
    /\ pc = "Done"
    /\ run < MaxRuns
    /\ rec
    /\ replay' = TRUE
    /\ before' = session.committed
    /\ UNCHANGED <<categories, limit, rec, tape>>
    /\ Begin

\* The end of the `for category` loop (exhausted, or break at the limit):
\* return list(collected_uids).
Return ==
    /\ pc = "CategoryLoop"
    /\ catIdx > Len(categories) \/ LimitReached
    /\ pc' = "Done"
    /\ result' \in ListsOf(collected_uids)
    /\ UNCHANGED <<called, run, categories, limit, catIdx, products_data, prodIdx,
                   collected_uids, product_urls, session, history, api>>

\* products_data of a grid response:
\* response.get("data", {}).get("paginatedProductGrid", {}).get("products", [])
\* and len(products_data) in the log line; an exception on a shape that
\* has no .get or no len.
GridProducts(response) ==
    IF response.k # "obj" THEN Raise ELSE
    LET data == Get(response, "data", JObj(<<>>)) IN
    IF data.k # "obj" THEN Raise ELSE
    LET grid == Get(data, "paginatedProductGrid", JObj(<<>>)) IN
    IF grid.k # "obj" THEN Raise ELSE
    LET products == Get(grid, "products", JList(<<>>)) IN
    IF products.k \in {"null", "num"} THEN Raise ELSE Items(products)

\* A handler that would leave the `for category` loop (a faulty variant of
\* line 134, to compare with).
CategoryErrorBreaks ==
    /\ pc' = "CategoryLoop"
    /\ catIdx' = Len(categories) + 1
    /\ products_data' = <<>>
    /\ prodIdx' = 0

\* No handler: the exception leaves collect_products (a faulty variant, to
\* compare with).
CategoryErrorPropagates ==
    /\ pc' = "Raised"
    /\ catIdx' = catIdx
    /\ products_data' = <<>>
    /\ prodIdx' = 0

\* `except Exception as e` of the category (line 134): log, and go on with
\* the next category.
CategoryError ==
    /\ pc' = "CategoryLoop"
    /\ catIdx' = catIdx + 1
    /\ products_data' = <<>>
    /\ prodIdx' = 0

\* The query string with the second page asked for (a faulty variant of
\* line 106, to compare with).
query_string_second_page(category) == [categories |-> category, limit |-> 30, skip |-> 30]

\* query_string of a category: the filter and the page asked for.
query_string(category) == [categories |-> category, limit |-> 30, skip |-> 0]

\* One pass of the `for category` loop up to the inner loop: the grid query
\* and the reading of its response.
FetchGrid ==
    /\ pc = "CategoryLoop"
    /\ catIdx <= Len(categories)
    /\ ~LimitReached
    /\ \E g \in DOMAIN GridReplies :
           /\ replay /\ tape.grid[catIdx] # 0 => g = tape.grid[catIdx]
           /\ tape' = IF rec THEN [tape EXCEPT !.grid[catIdx] = g] ELSE tape
           /\ \E products \in {LET response == get_paginated_products(GridReplies[g])
                                IN  IF response.ok THEN GridProducts(response.v) ELSE Raise} :
                  IF products.ok
                  THEN /\ pc' = "ProductLoop"
                       /\ products_data' = products.v
                       /\ prodIdx' = 1
                       /\ catIdx' = catIdx
                       /\ grid_errors' = grid_errors
                  ELSE /\ CategoryError
                       /\ grid_errors' = grid_errors \cup {catIdx}
    /\ fetched' = Append(fetched, categories[catIdx])
    /\ queries' = Append(queries, query_string(categories[catIdx]))
    /\ UNCHANGED <<called, run, categories, limit, collected_uids, product_urls, result, session,
                   calls, returned, last, attempt, written, rec, replay, before>>

\* The end of the `for product_data` loop: exhausted, or break at the limit.
NextCategory ==
    /\ pc = "ProductLoop"
    /\ prodIdx > Len(products_data) \/ LimitReached
    /\ pc' = "CategoryLoop"
    /\ catIdx' = catIdx + 1
    /\ products_data' = <<>>
    /\ prodIdx' = 0
    /\ UNCHANGED <<called, run, categories, limit, collected_uids, product_urls, result, session,
                   history, api>>

\* product_data.get("url") on a grid entry that is no dict: the exception
\* leaves the inner loop for the handler of the category.
BadEntry ==
    /\ pc = "ProductLoop"
    /\ prodIdx <= Len(products_data)
    /\ ~LimitReached
    /\ products_data[prodIdx].k # "obj"
    /\ CategoryError
    /\ UNCHANGED <<called, run, categories, limit, collected_uids, product_urls, result, session,
                   history, api>>

\* The test without the set membership (a faulty variant, to compare with).
SkipUrlNoDedup(url) == ~Truthy(url)

\* `not url or url in product_urls`
SkipUrl(url) == ~Truthy(url) \/ url.v \in product_urls

\* `if not url or url in product_urls: continue`
SkipEntry ==
    /\ pc = "ProductLoop"
    /\ prodIdx <= Len(products_data)
    /\ ~LimitReached
    /\ products_data[prodIdx].k = "obj"
    /\ SkipUrl(Get(products_data[prodIdx], "url", None))
    /\ prodIdx' = prodIdx + 1
    /\ UNCHANGED <<called, pc, run, categories, limit, catIdx, products_data,
                   collected_uids, product_urls, result, session, history, api>>

\* The product of a detail reply, None when the reply is an error or holds
\* no product object.
ReplyProduct(reply) ==
    LET response == get_product(reply) IN
    IF ~response.ok \/ response.v.k # "obj" THEN None
    ELSE LET data == Get(response.v, "data", JObj(<<>>)) IN
         IF data.k # "obj" THEN None
         ELSE LET product_data == Get(data, "product", JObj(<<>>)) IN
              IF product_data.k # "obj" THEN None ELSE product_data

\* The uid of the product of a detail reply, "" when it has none.
ReplyUid(reply) ==
    LET product_data == ReplyProduct(reply) IN
    IF product_data.k # "obj" THEN ""
    ELSE LET uid == Get(product_data, "uid", None) IN
         IF Truthy(uid) THEN uid.v ELSE ""

\* The URL not marked (a faulty variant of line 125, to compare with).
ProcessedForgotten(url) == product_urls

\* product_urls.add(url)
Processed(url) == product_urls \cup {url}

\* product_urls.add(url); uid = self.collect_product(url);
\* if uid: collected_uids.add(uid)
CollectEntry ==
    /\ pc = "ProductLoop"
    /\ prodIdx <= Len(products_data)
    /\ ~LimitReached
    /\ products_data[prodIdx].k = "obj"
    /\ LET url == Get(products_data[prodIdx], "url", None) IN
       /\ ~SkipUrl(url)
       /\ product_urls' = Processed(url.v)
       /\ \E d \in DOMAIN DetailReplies :
              \E r \in {collect_product(session, DetailReplies[d])}, u \in {ReplyUid(DetailReplies[d])} :
                  /\ replay /\ tape.detail[url.v] # 0 => d = tape.detail[url.v]
                  /\ tape' = IF rec THEN [tape EXCEPT !.detail[url.v] = d] ELSE tape
                  /\ session' = r.s
                  /\ collected_uids' = IF Truthy(r.uid) THEN collected_uids \cup {r.uid.v}
                                       ELSE collected_uids
                  /\ calls' = [calls EXCEPT ![url.v] = @ + 1]
                  /\ returned' = IF Truthy(r.uid) THEN Append(returned, r.uid.v) ELSE returned
                  /\ last' = [url |-> url.v, d |-> d, uid |-> r.uid,
                              existed |-> u \in DOMAIN session.committed.products]
                  /\ attempt' = [x \in Uids |->
                                    IF Truthy(r.uid) /\ x = r.uid.v THEN <<>>
                                    ELSE IF ~Truthy(r.uid) /\ x = u /\ r.s # session
                                            /\ attempt[x] = <<>>
                                         THEN <<Rows(session.committed, x)>>
                                         ELSE attempt[x]]
                  /\ written' = written
                                  \cup {x \in Uids : Rows(r.s.committed, x) # Rows(session.committed, x)}
                                  \cup (IF Truthy(r.uid) THEN {r.uid.v} ELSE {})
    /\ prodIdx' = prodIdx + 1
    /\ UNCHANGED <<called, pc, run, categories, limit, catIdx, products_data, result,
                   fetched, queries, grid_errors, rec, replay, before>>

\* The session is closed (get_db) and a new one opened on the same
\* database; what was not committed is gone.
CloseSession ==
    /\ pc \in {"Idle", "Done"}
    /\ session # close(session)
    /\ session' = close(session)
    /\ UNCHANGED <<called, loop, history, api>>

Next ==
    \/ Start
    \/ StartAgain
    \/ FetchGrid
    \/ NextCategory
    \/ BadEntry
    \/ SkipEntry
    \/ CollectEntry
    \/ Return
    \/ CloseSession

Spec == Init /\ [][Next]_vars

\* collect_products runs to its return: nothing but its own steps is
\* needed for the next step (single-threaded, synchronous).
Step ==
    \/ FetchGrid
    \/ NextCategory
    \/ BadEntry
    \/ SkipEntry
    \/ CollectEntry
    \/ Return

LiveSpec == Init /\ [][Next]_vars /\ WF_vars(Step)

(***************************************************************************)
(* Properties.                                                             *)
(***************************************************************************)
Running == pc \in {"CategoryLoop", "ProductLoop"}

\* A step that is a call of collect_product.
Collects == pc = "ProductLoop" /\ calls' # calls

Elements(q) == {q[i] : i \in DOMAIN q}

Count(q, x) == Cardinality({i \in DOMAIN q : q[i] = x})

\* The same rows, whatever their order.
SameBag(q, r) == Len(q) = Len(r) /\ \A x \in Elements(q) \cup Elements(r) : Count(q, x) = Count(r, x)

\* The child rows derived from a payload.
ChildrenOf(product_data) ==
    [specs |-> SpecRows(extract_specs(product_data).v),
     prices |-> PriceRows(extract_prices(product_data).v),
     technologies |-> extract_technologies(product_data).v,
     features |-> extract_features(product_data).v]

\* C1: once an upsert of uid u has started writing and failed, the rows of
\* u in every state committed later in the run are those from before the
\* failed attempt (until u is upserted successfully).
AtomicWrites ==
    \A u \in Uids : attempt[u] # <<>> => Rows(session.committed, u) = attempt[u][1]

\* C2: after a successful upsert of a uid that existed, its four child
\* tables hold exactly the rows derived from the newest payload.
ReplaceNotMerge ==
    Truthy(last.uid) /\ last.existed =>
        LET rows == Rows(session.committed, last.uid.v)
            want == ChildrenOf(ReplyProduct(DetailReplies[last.d]))
        IN  /\ rows.specs = want.specs
            /\ rows.prices = want.prices
            /\ rows.technologies = want.technologies
            /\ rows.features = want.features

\* C3: a second run over the same categories with the same replies leaves
\* every uid with the Product row and the child rows (as multisets) it had
\* after the first run.
Idempotence ==
    pc = "Done" /\ replay =>
        \A u \in Uids :
            LET now == Rows(session.committed, u)
                was == Rows(before, u)
            IN  /\ now.product = was.product
                /\ SameBag(now.specs, was.specs)
                /\ SameBag(now.prices, was.prices)
                /\ SameBag(now.technologies, was.technologies)
                /\ SameBag(now.features, was.features)

LimitStops ==
    /\ [][Running /\ limit.k = "num" /\ Cardinality(collected_uids) >= limit.v
            => fetched' = fetched /\ calls' = calls]_vars
    /\ [](pc = "Done" /\ limit.k = "num" => Len(result) <= limit.v)

\* C6: at the return a uid is in the result exactly if a commit of the run
\* wrote rows of that uid.
ResultIsWritten ==
    pc = "Done" => Elements(result) = written

\* C7: after a failed grid fetch the run goes on with the next category,
\* and what the other categories collected is returned.
CategoryFailureDoesNotAbort ==
    /\ \A c \in grid_errors : Running => catIdx > c
    /\ pc = "Done" =>
           /\ \A c \in grid_errors : c < Len(categories) => Len(fetched) > c
           /\ ~LimitReached => fetched = categories
           /\ Elements(result) = Elements(returned)

\* The first category failed, the second was fetched and its uid returned.
CategoryFailureWitness ==
    /\ pc = "Done"
    /\ grid_errors = {1}
    /\ Len(fetched) = 2
    /\ result # <<>>

\* C8: a detail reply that is an error, holds no product or holds a
\* product without uid adds nothing to the collected uids and leaves the
\* database alone, the loop goes on with the next entry, and the URL is
\* in product_urls and is not fetched again in the run.
SkippedProduct ==
    /\ [][Collects /\ ReplyUid(DetailReplies[last'.d]) = ""
            => /\ collected_uids' = collected_uids
               /\ returned' = returned
               /\ session' = session
               /\ last'.url \in product_urls'
               /\ pc' = "ProductLoop"
               /\ products_data' = products_data
               /\ prodIdx' = prodIdx + 1]_vars
    /\ [][run' = run => \A url \in product_urls :
                            url \in product_urls' /\ calls'[url] = calls[url]]_vars

\* A product without uid was skipped and the next entry of the same grid
\* was collected.
SkippedProductWitness ==
    /\ pc = "ProductLoop"
    /\ calls["/a"] = 1
    /\ calls["/b"] = 1
    /\ rec
    /\ tape.detail["/a"] = 3
    /\ last.url = "/b"
    /\ Truthy(last.uid)

\* C9: a failed flush or commit leaves nothing of the product in the
\* database, and every later call of collect_product in the run does what
\* it does on a clean transaction over the committed database.
FailedTransactionIsContained ==
    /\ [][session.state = "active" /\ session'.state = "deactive"
            => session'.committed = session.committed /\ session'.txn = session.committed]_vars
    /\ [][Collects /\ session.state = "deactive"
            => LET clean == collect_product(close(session), DetailReplies[last'.d])
               IN  last'.uid = clean.uid /\ session'.committed = clean.s.committed]_vars

\* The moves of the run between its positions.
Moves ==
    [from \in {"Idle", "CategoryLoop", "ProductLoop", "Done", "Raised"} |->
        [to \in {"Idle", "CategoryLoop", "ProductLoop", "Done", "Raised"} |->
            \/ from \in {"Idle", "Done"} /\ to = "CategoryLoop"
            \/ from = "CategoryLoop" /\ to \in {"ProductLoop", "Done"}
            \/ from = "ProductLoop" /\ to = "CategoryLoop"]]

\* C10: collect_products never raises; it goes Idle -> CategoryLoop ->
\* ProductLoop -> Done, the categories fetched in list order and each at
\* most once, and every run reaches Done.
NoErrorIsFatal ==
    /\ [](pc \in {"Idle", "CategoryLoop", "ProductLoop", "Done"})
    /\ [](/\ Len(fetched) <= Len(categories)
          /\ \A i \in DOMAIN fetched : fetched[i] = categories[i])
    /\ [][pc' # pc => Moves[pc][pc']]_vars
    /\ (Running ~> pc = "Done")

\* A run with a failed grid fetch, a failed detail fetch and a failed
\* transaction has returned.
NoErrorIsFatalWitness ==
    /\ pc = "Done"
    /\ grid_errors # {}
    /\ session.state = "deactive"
    /\ calls["/a"] = 1
    /\ calls["/b"] = 1
    /\ last.d = 1

UpsertedProduct(product_data, old) ==
    LET keep(attr) == IF old = <<>> THEN JStr("") ELSE old[1][attr] IN
    [uid |-> IF old = <<>> THEN Get(product_data, "uid", None) ELSE old[1].uid,
     title |-> Get(product_data, "title", keep("title")),
     display_title |-> Get(product_data, "display_title", keep("display_title")),
     url |-> Get(product_data, "url", keep("url")),
     description |-> clean_html(Get(product_data, "description", keep("description"))).v,
     tagline |-> Get(product_data, "tagline", keep("tagline"))]

\* C12: a call of collect_product on a payload with uid u that returns a
\* uid returns u and has committed; if the lookup by u found no Product row
\* the database then holds a new row of u made from the payload, otherwise
\* the row found with the payload's attributes assigned; in both cases the
\* four child tables of u hold exactly the rows derived from the payload,
\* and u has one Product row.
UpsertByUid ==
    [][Collects /\ Truthy(last'.uid) =>
          LET u == last'.uid.v
              product_data == ReplyProduct(DetailReplies[last'.d])
              old == Rows(session.txn, u).product
              now == Rows(session'.committed, u)
              want == ChildrenOf(product_data)
          IN  /\ u = ReplyUid(DetailReplies[last'.d])
              /\ session'.committed = session'.txn
              /\ session'.new = <<>>
              /\ session'.dirty = <<>>
              /\ now.product = <<UpsertedProduct(product_data, old)>>
              /\ now.specs = want.specs
              /\ now.prices = want.prices
              /\ now.technologies = want.technologies
              /\ now.features = want.features]_vars

\* Both branches of the upsert have returned a uid: a uid was created and
\* later updated from another payload.
UpsertByUidWitness ==
    /\ Truthy(last.uid)
    /\ last.existed
    /\ last.d = 5
    /\ Rows(session.committed, "u1").product # <<>>

(***************************************************************************)
(* One call of a normaliser on its own: the method and its argument are    *)
(* drawn at the start, the call returns or raises once.                    *)
(***************************************************************************)
MaxTechnologies == 2

\* The lists of at most n elements of S.
RECURSIVE ListsUpTo(_, _)
ListsUpTo(S, n) ==
    IF n = 0 THEN {<<>>}
    ELSE LET shorter == ListsUpTo(S, n - 1)
         IN  shorter \cup {Append(q, x) : q \in {r \in shorter : Len(r) = n - 1}, x \in S}

\* "<p>C</p>"
PC == T(<<"<", "p", ">", "C", "<", "/", "p", ">">>)

\* Technology records: the title and the content each absent, null, empty
\* or present; a content that is no string.
Technologies ==
    {JObj(title @@ content) :
        title \in {<<>>, [title |-> JNull], [title |-> JStr("")], [title |-> JStr("Core")]},
        content \in {<<>>, [content |-> JNull], [content |-> T(<<>>)], [content |-> PC],
                     [content |-> T(<<" ", "C", "\n">>)], [content |-> JNum(1)]}}

\* A payload whose details.technology is technology_data.
TechnologyPayload(technology_data) == JObj([details |-> JObj([technology |-> technology_data])])

TechnologyPayloads ==
    {TechnologyPayload(t) : t \in Technologies}
        \cup {TechnologyPayload(JList(q)) : q \in ListsUpTo(Technologies, MaxTechnologies)}

MaxSpecs == 2

\* Spec entries: the id and the title each absent, null, empty or present;
\* the value absent, null, a string, or a list of strings.
SpecEntries ==
    {JObj(id @@ title @@ value) :
        id \in {<<>>, [id |-> JNull], [id |-> JStr("")], [id |-> JStr("len")]},
        title \in {<<>>, [title |-> JStr("")], [title |-> JStr("Length")]},
        value \in {[value |-> JStr("170cm")], [value |-> JList(<<>>)],
                   [value |-> JList(<<JStr("race"), JStr("tour")>>)]}}
        \cup {JObj([id |-> JStr("use"), title |-> JStr("Use")] @@ value) :
                value \in {<<>>, [value |-> JNull], [value |-> JStr("")],
                           [value |-> JList(<<JStr("race")>>)]}}

SpecPayloads ==
    {JObj([updated_product_specs |-> JList(q)]) : q \in ListsUpTo(SpecEntries, MaxSpecs)}

\* specs = self._extract_specs(product_data) and the ProductSpec rows made
\* of them, as _create_product and _update_product do.
product_specs(product_data) ==
    Bind(extract_specs(product_data), LAMBDA specs :
         IF specs.ok THEN Ok(SpecRows(specs.v)) ELSE Raise)

MaxGroups == 2

\* The group lists of feature groups: items with the content absent,
\* empty or present.
FeatureLists ==
    LET none == JObj(<<>>)
        empty == JObj([content |-> T(<<>>)])
        f == JObj([content |-> T(<<"f">>)])
        g == JObj([content |-> T(<<"<", "i", ">", "g">>)])
    IN  {<<>>, <<none>>, <<empty>>, <<f>>, <<empty, f>>, <<f, g>>, <<g, f>>, <<f, none, g>>}

\* Feature groups: the group_title absent, null or present; the group
\* absent or a list of items.
FeatureGroups ==
    {JObj(group_title @@ group) :
        group_title \in {<<>>, [group_title |-> JNull], [group_title |-> JStr("Base")],
                         [group_title |-> JStr("Top")]},
        group \in {<<>>} \cup {[group |-> JList(q)] : q \in FeatureLists}}

\* A payload whose details.feature_details is feature_details.
FeaturePayload(feature_details) == JObj([details |-> JObj([feature_details |-> feature_details])])

FeaturePayloads == {FeaturePayload(JList(q)) : q \in ListsUpTo(FeatureGroups, MaxGroups)}

MaxLen == 4

\* The characters of the strings given to _clean_html.
Chars == {"<", ">", "a", " ", "\n"}

\* html: None or a string of at most MaxLen characters.
Htmls == {None} \cup {T(q) : q \in ListsUpTo(Chars, MaxLen)}

\* The shapes of a payload field: absent, null, an object, a list.
Shapes(key, object, list) ==
    {<<>>, key :> JNull, key :> JObj(object), key :> JList(list)}

\* Detail payloads with updated_product_specs, prices, details,
\* details.technology and details.feature_details each absent, null, an
\* object or a list.
ShapePayloads ==
    LET spec == [id |-> JStr("len"), title |-> JStr("Length"), value |-> JStr("170cm")]
        tech == [title |-> JStr("Core"), content |-> PC]
        feature_group == [group_title |-> JStr("Base"),
                          group |-> JList(<<JObj([content |-> T(<<"f">>)])>>)]
        details == {technology @@ feature_details :
                       technology \in Shapes("technology", tech, <<JObj(tech)>>),
                       feature_details \in Shapes("feature_details", feature_group,
                                                  <<JObj(feature_group)>>)}
    IN  {JObj(updated_product_specs @@ prices @@ d) :
            updated_product_specs \in Shapes("updated_product_specs", spec, <<JObj(spec)>>),
            prices \in Shapes("prices", [no |-> JStr("100 NOK")], <<JStr("100 NOK")>>),
            d \in {<<>>, [details |-> JNull], [details |-> JList(<<>>)]}
                      \cup {[details |-> JObj(x)] : x \in details}}

\* The bodies of the replies to one request: a result, an empty result,
\* bodies with an errors field (with and without data), and bodies that are
\* no object.
Bodies ==
    {JObj([data |-> JObj([product |-> Pole])]),
     JObj([data |-> JObj([product |-> JNull])]),
     JObj(<<>>),
     Errors,
     JObj([data |-> JNull, errors |-> JList(<<JStr("boom")>>)]),
     JObj([data |-> JObj([product |-> Pole]), errors |-> JList(<<>>)]),
     JObj([errors |-> JNull]),
     JNull,
     JList(<<>>)}

Replies ==
    {HttpError} \cup {[http |-> "status", body |-> b] : b \in {JNull, Errors}}
        \cup {HttpOk(b) : b \in Bodies}

(***************************************************************************)
(* ProductFormatter.  A formatted text is a string; an Optional[str] is    *)
(* JStr(string) or None.  The rows of a table are read in row order.       *)
(***************************************************************************)
\* The string of the characters of a text.
RECURSIVE Concat(_)
Concat(chars) == IF chars = <<>> THEN "" ELSE Head(chars) \o Concat(Tail(chars))

\* The value of a column inside an f-string.
str(j) ==
    CASE j.k = "str" -> j.v
      [] j.k = "text" -> Concat(j.v)
      [] OTHER -> "None"

\* sep.join(lines)
RECURSIVE join(_, _)
join(sep, lines) ==
    IF lines = <<>> THEN ""
    ELSE IF Len(lines) = 1 THEN lines[1]
    ELSE lines[1] \o sep \o join(sep, Tail(lines))

\* region.upper(), on the region codes of the catalog
upper(region) ==
    CASE region = "no" -> "NO"
      [] region = "se" -> "SE"
      [] region = "gb" -> "GB"
      [] OTHER -> region

\* The position of key in a dict kept as the list of its items in
\* insertion order, 0 when it is no key.
IndexOf(dict, key) ==
    IF \E i \in DOMAIN dict : dict[i].key = key
    THEN CHOOSE i \in DOMAIN dict : dict[i].key = key
    ELSE 0

\* dict[key] = value that leaves the value of a key already there
\* (a faulty variant of line 139, to compare with)
SetItemOnce(dict, key, value) ==
    IF IndexOf(dict, key) = 0 THEN Append(dict, [key |-> key, value |-> value]) ELSE dict

\* dict[key] = value: a new key goes last, a key already there keeps its
\* position and gets the value.
SetItem(dict, key, value) ==
    IF IndexOf(dict, key) = 0 THEN Append(dict, [key |-> key, value |-> value])
    ELSE [dict EXCEPT ![IndexOf(dict, key)].value = value]

RECURSIVE specs_by_title(_, _)
specs_by_title(specs, dict) ==
    IF specs = <<>> THEN dict
    ELSE specs_by_title(Tail(specs), SetItem(dict, Head(specs).title, Head(specs).value))

\* _format_specs(specs)
format_specs(specs) ==
    IF specs = <<>> THEN None
    ELSE Bind(SelectSeq(specs_by_title(specs, <<>>), LAMBDA item : Truthy(item.value)), LAMBDA items :
         IF items = <<>> THEN None
         ELSE JStr(join("; ", [i \in DOMAIN items |-> str(items[i].key) \o ": " \o str(items[i].value)])))

\* _format_prices(prices)
format_prices(prices) ==
    Bind(SelectSeq(prices, LAMBDA price : Truthy(price.price)), LAMBDA rows :
         IF rows = <<>> THEN None
         ELSE JStr(join("; ", [i \in DOMAIN rows |->
                                  upper(str(rows[i].region)) \o ": " \o str(rows[i].price)])))

\* _format_technologies listing every technology as "title: content"
\* (a faulty variant without lines 194-195, to compare with)
format_technologies_with_content(technologies) ==
    IF technologies = <<>> THEN None
    ELSE JStr(join(" | ", [i \in DOMAIN technologies |->
                              str(technologies[i].title) \o ": " \o str(technologies[i].content)]))

\* _format_technologies(technologies)
format_technologies(technologies) ==
    IF technologies = <<>> THEN None
    ELSE JStr(join(" | ", [i \in DOMAIN technologies |->
                              IF Truthy(technologies[i].content)
                              THEN str(technologies[i].title) \o ": " \o str(technologies[i].content)
                              ELSE str(technologies[i].title)]))

\* features_by_group: the contents of every group title, "General" for a
\* feature without one.
RECURSIVE features_by_group(_, _)
features_by_group(features, dict) ==
    IF features = <<>> THEN dict
    ELSE Bind(Head(features), LAMBDA feature :
         Bind(IF Truthy(feature.group_title) THEN feature.group_title ELSE JStr("General"),
              LAMBDA group_title :
         Bind(IF IndexOf(dict, group_title) = 0 THEN SetItem(dict, group_title, <<>>) ELSE dict,
              LAMBDA d :
         features_by_group(Tail(features),
             [d EXCEPT ![IndexOf(d, group_title)].value = Append(@, str(feature.content))]))))

\* _format_features(features)
format_features(features) ==
    IF features = <<>> THEN None
    ELSE Bind(features_by_group(features, <<>>), LAMBDA items :
         JStr(join(" | ", [i \in DOMAIN items |->
                              str(items[i].key) \o ": " \o join(", ", items[i].value)])))

\* The list `lines` of _create_formatted_text.
formatted_lines(product, specs_text, prices_text, technologies_text, features_text) ==
    <<"Product: " \o str(product.display_title)>>
        \o (IF Truthy(product.tagline) THEN <<"Tagline: " \o str(product.tagline)>> ELSE <<>>)
        \o <<"URL: " \o str(product.url), "UID: " \o str(product.uid)>>
        \o (IF Truthy(product.description)
            THEN <<"Description: " \o str(product.description)>> ELSE <<>>)
        \o (IF Truthy(specs_text) THEN <<"Specifications: " \o specs_text.v>> ELSE <<>>)
        \o (IF Truthy(prices_text) THEN <<"Prices: " \o prices_text.v>> ELSE <<>>)
        \o (IF Truthy(technologies_text) THEN <<"Technology: " \o technologies_text.v>> ELSE <<>>)
        \o (IF Truthy(features_text) THEN <<"Features: " \o features_text.v>> ELSE <<>>)

\* _create_formatted_text(product, specs_text, prices_text, technologies_text, features_text)
create_formatted_text(product, specs_text, prices_text, technologies_text, features_text) ==
    join("\n", formatted_lines(product, specs_text, prices_text, technologies_text, features_text))

\* format_product(uid) on a database: None, or the ProductTextOutputSchema.
format_product(database, uid) ==
    IF uid \notin DOMAIN database.products THEN None
    ELSE Bind(database.products[uid], LAMBDA product :
         Bind(format_specs(database.specs[uid]), LAMBDA specs_text :
         Bind(format_prices(database.prices[uid]), LAMBDA prices_text :
         Bind(format_technologies(database.technologies[uid]), LAMBDA technologies_text :
         Bind(format_features(database.features[uid]), LAMBDA features_text :
         JObj([uid |-> product.uid,
               display_title |-> product.display_title,
               url |-> product.url,
               description |-> product.description,
               tagline |-> product.tagline,
               specs_text |-> specs_text,
               prices_text |-> prices_text,
               technologies_text |-> technologies_text,
               features_text |-> features_text,
               formatted_text |-> JStr(create_formatted_text(product, specs_text, prices_text,
                                                             technologies_text, features_text))]))))))

\* The databases given to format_product: the Product row u1 with the
\* tagline and the description null, empty or present, and its child rows.
StoredProducts ==
    {[uid |-> JStr("u1"), title |-> JStr("Ski"), display_title |-> JStr("Ski X"),
      url |-> JStr("/a"), description |-> description, tagline |-> tagline] :
        description \in {None, T(<<>>), T(<<"d", " ", "e">>)},
        tagline \in {None, JStr(""), JStr("fast")}}

StoredSpecs ==
    LET row(title, value) == [spec_id |-> JStr("id"), title |-> JStr(title), value |-> value]
    IN  {<<>>, <<row("Length", None)>>, <<row("Length", JStr("170cm"))>>,
         <<row("Length", JStr("170cm")), row("Use", JStr("race, tour")), row("Length", JStr("180cm"))>>}

StoredPrices ==
    LET row(region, price) == [region |-> JStr(region), price |-> price]
    IN  {<<>>, <<row("gb", None)>>, <<row("no", JStr("100 NOK"))>>,
         <<row("no", JStr("100 NOK")), row("gb", JStr("")), row("se", JStr("95 SEK"))>>}

StoredTechnologies ==
    LET row(title, content) == [title |-> JStr(title), content |-> content]
    IN  {<<>>, <<row("Core", T(<<"C">>))>>, <<row("Core", T(<<>>))>>,
         <<row("Core", T(<<"C">>)), row("Grip", None), row("Edge", T(<<"E">>))>>}

StoredFeatures ==
    LET row(group_title, content) == [group_title |-> group_title, content |-> T(content)]
    IN  {<<>>, <<row(None, <<"f">>)>>,
         <<row(JStr("Base"), <<"f">>), row(JStr("Top"), <<"g">>), row(JStr("Base"), <<"h">>)>>}

Databases ==
    {[products |-> ("u1" :> product), specs |-> [NoRows EXCEPT !["u1"] = specs],
      prices |-> [NoRows EXCEPT !["u1"] = prices],
      technologies |-> [NoRows EXCEPT !["u1"] = technologies],
      features |-> [NoRows EXCEPT !["u1"] = features]] :
        product \in StoredProducts, specs \in StoredSpecs, prices \in StoredPrices,
        technologies \in StoredTechnologies, features \in StoredFeatures}

\* The lists of ProductSpec rows given to _format_specs: up to MaxRows
\* rows with two titles and a null, an empty or a present value.
MaxRows == 3

SpecRowLists ==
    ListsUpTo({[spec_id |-> JStr("id"), title |-> JStr(title), value |-> value] :
                  title \in {"Length", "Use"}, value \in {None, JStr(""), JStr("a"), JStr("b")}},
              MaxRows)

\* The rows of query.all() in format_products: of the products whose uid
\* is in uids when uids is neither None nor empty, of every product
\* otherwise.
query_all(database, uids) ==
    IF Truthy(uids)
    THEN {u \in DOMAIN database.products : \E i \in DOMAIN uids.v : uids.v[i] = JStr(u)}
    ELSE DOMAIN database.products

\* The loop of format_products over the uids of the rows found.
formatted_products(database, products) ==
    SelectSeq([i \in DOMAIN products |-> format_product(database, products[i])], Truthy)

\* The databases given to format_products: any of the products u1 and u2,
\* u1 with or without a price.
CatalogDatabases ==
    {[products |-> [u \in stored |->
                       [uid |-> JStr(u), title |-> JStr("Ski"), display_title |-> JStr("Ski " \o u),
                        url |-> JStr("/" \o u), description |-> None, tagline |-> None]],
      specs |-> NoRows,
      prices |-> [NoRows EXCEPT !["u1"] = IF "u1" \in stored THEN prices ELSE <<>>],
      technologies |-> NoRows,
      features |-> NoRows] :
        stored \in SUBSET Uids,
        prices \in {<<>>, <<[region |-> JStr("no"), price |-> JStr("100 NOK")]>>}}

\* The uids given to format_products: None or a list of up to MaxUids uids.
MaxUids == 2

UidLists == {None} \cup {JList(q) : q \in ListsUpTo({JStr(u) : u \in Uids}, MaxUids)}

\* The command lines of the collect command: the options --category,
\* --region, --locale and --limit as Typer parses them, and the settings
\* of the environment.
Regions == {"no", "se"}

Locales == {"en-us", "nb-no"}

CommandLines ==
    {[categories |-> c, region |-> r, locale |-> l, limit |-> n,
      settings |-> [default_region |-> dr, default_locale |-> dl]] :
        c \in {None} \cup {JList(q) : q \in CategoryLists}, r \in Regions, l \in Locales,
        n \in Limits, dr \in Regions, dl \in Locales}

\* main of scripts/collect_products.py: the arguments with which the
\* ProductCollector is constructed and collect_products is called.
main(options) ==
    LET categories_value == None
        limit_value == None
        region_value == options.settings.default_region
        locale_value == options.settings.default_locale
    IN  [ProductCollector |-> [region |-> region_value, locale |-> locale_value],
         collect_products |-> [categories |-> categories_value, limit |-> limit_value]]

\* The root attributes of a product that an upsert assigns.
RootAttributes == {"title", "display_title", "url", "description", "tagline"}

\* Detail payloads of u1 with any of the keys of the root attributes: two
\* titles, a description of one line and one with a line break in a tag.
RootPayloads ==
    {JObj([key \in {"uid"} \cup keys |-> full[key]]) :
        keys \in SUBSET RootAttributes,
        full \in {[uid |-> JStr("u1"), title |-> JStr(title), display_title |-> JStr("Ski X"),
                   url |-> JStr("/a"), description |-> T(description), tagline |-> JStr("fast")] :
                     title \in {"Ski", "Ski 2"},
                     description \in {<<"d">>, <<"<", "a", "\n", ">", "b">>}}}

\* What collect_product(url) left of u1, the detail query being answered
\* with product_data: the value returned and the committed Product row.
Upserted(s, product_data) ==
    Bind(collect_product(s, Detail(product_data)), LAMBDA r :
         [uid |-> r.uid, product |-> Rows(r.s.committed, "u1").product, s |-> r.s])

\* The call fn(arg) is made.
Called(name, args) ==
    /\ fn = name
    /\ arg \in args
    /\ done = FALSE
    /\ out = Raise
    /\ posts = 0

\* The call of name ends with outcome.
Returns(name, outcome) ==
    /\ fn = name
    /\ ~done
    /\ done' = TRUE
    /\ out' = outcome
    /\ UNCHANGED <<fn, arg, posts, loop, session, history, api>>

ExtractTechnologies == Returns("_extract_technologies", extract_technologies(arg))

StoreSpecs == Returns("product_spec", product_specs(arg))

ExtractFeatures == Returns("_extract_features", extract_features(arg))

CleanHtml == Returns("_clean_html", clean_html(arg))

\* execute with the failed request sent once more
\* (a faulty variant of lines 60-72, to compare with)
ExecuteRetrying ==
    /\ fn = "execute"
    /\ ~done
    /\ done' = TRUE
    /\ posts' = posts + (IF arg.http = "ok" THEN 1 ELSE 2)
    /\ out' = execute(arg)
    /\ UNCHANGED <<fn, arg, loop, session, history, api>>

\* One call of GraphQLClient.execute, the server replying arg: the one
\* requests.post of line 61, then the checks of lines 62-69.
Execute ==
    /\ fn = "execute"
    /\ ~done
    /\ done' = TRUE
    /\ posts' = posts + 1
    /\ out' = execute(arg)
    /\ UNCHANGED <<fn, arg, loop, session, history, api>>

ExtractSpecs == Returns("_extract_specs", extract_specs(arg))

ExtractPrices == Returns("_extract_prices", extract_prices(arg))

FormatProduct == Returns("format_product", format_product(arg.database, arg.uid))
FormatSpecs == Returns("_format_specs", format_specs(arg))
Main == Returns("main", main(arg))

\* collect_product twice on a new database, the detail query answered
\* with the payload first, then with second; and collect_product once on
\* another new database, answered with second.
CollectTwice ==
    /\ fn = "collect_product"
    /\ ~done
    /\ \E first \in {Upserted(SessionLocal(EmptyDb), arg.first)} :
       \E updated \in {Upserted(first.s, arg.second)} :
       \E created \in {Upserted(SessionLocal(EmptyDb), arg.second)} :
          out' = [first |-> [uid |-> first.uid, product |-> first.product],
                  updated |-> [uid |-> updated.uid, product |-> updated.product],
                  created |-> [uid |-> created.uid, product |-> created.product]]
    /\ done' = TRUE
    /\ UNCHANGED <<fn, arg, posts, loop, session, history, api>>

\* format_products(uids); the query has no ORDER BY, so the rows come in
\* an order the database chooses.  out keeps the rows of the query, the
\* number of calls of format_product and the list returned.
FormatProducts ==
    /\ fn = "format_products"
    /\ ~done
    /\ \E products \in ListsOf(query_all(arg.database, arg.uids)) :
          out' = [query |-> products,
                  calls |-> Len(products),
                  formatted |-> formatted_products(arg.database, products)]
    /\ done' = TRUE
    /\ UNCHANGED <<fn, arg, posts, loop, session, history, api>>

CallInit ==
    /\ Constructed
    /\ \/ Called("_extract_technologies", TechnologyPayloads \cup ShapePayloads)
       \/ Called("product_spec", SpecPayloads)
       \/ Called("_extract_features", FeaturePayloads \cup ShapePayloads)
       \/ Called("_extract_specs", ShapePayloads)
       \/ Called("_extract_prices", ShapePayloads)
       \/ Called("execute", Replies)
       \/ Called("_clean_html", Htmls)
       \/ Called("format_product", {[database |-> d, uid |-> u] : d \in Databases, u \in Uids})
       \/ Called("_format_specs", SpecRowLists)
       \/ Called("main", CommandLines)
       \/ Called("collect_product",
                 {[first |-> p, second |-> q] : p \in RootPayloads, q \in RootPayloads})
       \/ Called("format_products",
                 {[database |-> d, uids |-> u] : d \in CatalogDatabases, u \in UidLists})

CallNext ==
    \/ ExtractTechnologies
    \/ StoreSpecs
    \/ ExtractFeatures
    \/ CleanHtml
    \/ ExtractSpecs
    \/ ExtractPrices
    \/ Execute
    \/ FormatProduct
    \/ FormatSpecs
    \/ FormatProducts
    \/ Main
    \/ CollectTwice

CallSpec == CallInit /\ [][CallNext]_vars

\* C13: _extract_technologies on a payload whose details.technology is the
\* single record t gives what it gives on the payload whose
\* details.technology is [t]: nothing when t has no title, else one entry
\* with t's title whose content is stripped ("<p>C</p>" gives "C").
TolerantShape ==
    fn = "_extract_technologies" /\ done /\ arg \in TechnologyPayloads =>
        LET t == arg.v.details.v.technology IN
        t.k = "obj" =>
            /\ out = extract_technologies(TechnologyPayload(JList(<<t>>)))
            /\ out.ok /\ ~Truthy(Get(t, "title", JStr(""))) => out.v = <<>>
            /\ out.ok /\ Truthy(Get(t, "title", JStr(""))) =>
                   /\ Len(out.v) = 1
                   /\ out.v[1].title = t.v.title
                   /\ Get(t, "content", JNull) = PC => out.v[1].content = T(<<"C">>)

\* The single record {title: Core, content: <p>C</p>} gave [{Core, C}].
TolerantShapeWitness ==
    /\ fn = "_extract_technologies"
    /\ done
    /\ arg = TechnologyPayload(JObj([title |-> JStr("Core"), content |-> PC]))
    /\ out = Ok(<<[title |-> JStr("Core"), content |-> T(<<"C">>)]>>)

\* A price that is null, empty or only whitespace (a token is neither).
Blank(price) ==
    \/ ~Truthy(price)
    \/ price.k = "text" /\ \A i \in DOMAIN price.v : IsSpace(price.v[i])

\* C14: no ProductPrice row with a null, empty or blank price is in the
\* database, and after a successful upsert the ProductPrice rows of the
\* product are one row per region of the payload's prices map whose value
\* is not blank.
BlankPriceDropping ==
    /\ \A u \in Uids : \A i \in DOMAIN session.committed.prices[u] :
           ~Blank(session.committed.prices[u][i].price)
    /\ Truthy(last.uid) =>
           LET rows == session.committed.prices[last.uid.v]
               prices == Get(ReplyProduct(DetailReplies[last.d]), "prices", JObj(<<>>)).v
           IN  /\ {rows[i].region.v : i \in DOMAIN rows} = {r \in DOMAIN prices : ~Blank(prices[r])}
               /\ \A i, j \in DOMAIN rows : rows[i].region = rows[j].region => i = j

\* A payload with the prices {no: "50 NOK", gb: " "} was upserted.
BlankPriceDroppingWitness ==
    /\ Truthy(last.uid)
    /\ last.d = 7
    /\ session.committed.prices["u2"] # <<>>

\* The spec entries of a payload whose id and title are both non-empty, in
\* payload order.
KeptSpecs(product_data) ==
    SelectSeq(product_data.v.updated_product_specs.v,
              LAMBDA e : Truthy(Get(e, "id", JStr(""))) /\ Truthy(Get(e, "title", JStr(""))))

\* The ProductSpec rows of the entries kept, value stored as Stored says.
SpecRowsWith(kept, Stored(_)) ==
    [i \in 1..Len(kept) |->
        [spec_id |-> kept[i].v.id, title |-> kept[i].v.title,
         value |-> Stored(Get(kept[i], "value", JStr("")))]]

RowsOfGroup(feature_group) ==
    LET items == SelectSeq(Get(feature_group, "group", JList(<<>>)).v,
                           LAMBDA item : Truthy(Get(item, "content", JStr(""))))
    IN  [i \in 1..Len(items) |->
            [group_title |-> Get(feature_group, "group_title", JStr("")),
             content |-> items[i].v.content]]

\* The rows of the groups, group after group.
RECURSIVE RowsOfGroups(_)
RowsOfGroups(feature_details) ==
    IF feature_details = <<>> THEN <<>>
    ELSE RowsOfGroup(Head(feature_details)) \o RowsOfGroups(Tail(feature_details))

\* C16: _extract_features returns exactly one row for every item with a
\* non-empty content of every group of details.feature_details, in group
\* order then item order, each with the group_title of its group; items
\* with an empty content give no row.
FeaturesFlattened ==
    fn = "_extract_features" /\ done /\ arg \in FeaturePayloads =>
        out = Ok(RowsOfGroups(arg.v.details.v.feature_details.v))

\* Two groups with different titles, the first holding an item with an
\* empty content, gave one row per non-empty item, each with its own
\* group's title.
FeaturesFlattenedWitness ==
    /\ fn = "_extract_features"
    /\ done
    /\ arg = FeaturePayload(JList(<<
                JObj([group_title |-> JStr("Base"),
                      group |-> JList(<<JObj([content |-> T(<<>>)]), JObj([content |-> T(<<"f">>)])>>)]),
                JObj([group_title |-> JStr("Top"),
                      group |-> JList(<<JObj([content |-> T(<<"<", "i", ">", "g">>)]),
                                        JObj([content |-> T(<<"f">>)])>>)])>>))
    /\ out = Ok(<<[group_title |-> JStr("Base"), content |-> T(<<"f">>)],
                  [group_title |-> JStr("Top"), content |-> T(<<"<", "i", ">", "g">>)],
                  [group_title |-> JStr("Top"), content |-> T(<<"f">>)]>>)

\* s has a span that starts with "<" and ends with a later ">".
HasTagSpan(s) == \E i, j \in DOMAIN s : i < j /\ s[i] = "<" /\ s[j] = ">"

\* The feature rows with strip_html applied to the content, those whose
\* content is then empty left out.
StrippedRows(rows) ==
    SelectSeq([i \in DOMAIN rows |-> [rows[i] EXCEPT !.content = clean_html(@).v]],
              LAMBDA row : Truthy(row.content))

\* C17: no ProductFeature row in the database has a content with a tag
\* span or an empty content, and after a successful upsert the
\* ProductFeature rows of the product are the feature items of the payload
\* with strip_html applied to the content, those with an empty result left
\* out.
FeatureContentStripped ==
    /\ \A u \in Uids : \A i \in DOMAIN session.committed.features[u] :
           /\ ~HasTagSpan(session.committed.features[u][i].content.v)
           /\ session.committed.features[u][i].content.v # <<>>
    /\ Truthy(last.uid) =>
           LET details == Get(ReplyProduct(DetailReplies[last.d]), "details", JObj(<<>>))
               feature_details == Get(details, "feature_details", JList(<<>>))
           IN  session.committed.features[last.uid.v] = StrippedRows(RowsOfGroups(feature_details.v))

\* A payload with the feature content "<i>f" was upserted.
FeatureContentStrippedWitness ==
    /\ Truthy(last.uid)
    /\ last.d = 4
    /\ session.committed.features["u1"] # <<>>

\* C18: for every string, tags with line breaks included, the result of
\* _clean_html has no span from a "<" to a later ">", no two whitespace
\* characters in a row and no whitespace at its ends; for None and for the
\* empty string it is the empty string.
CleanHtmlPostcondition ==
    fn = "_clean_html" /\ done =>
        /\ out.ok
        /\ out.v.k = "text"
        /\ LET text == out.v.v IN
           /\ ~HasTagSpan(text)
           /\ \A i \in 1..(Len(text) - 1) : ~(IsSpace(text[i]) /\ IsSpace(text[i + 1]))
           /\ text # <<>> => ~IsSpace(text[1]) /\ ~IsSpace(text[Len(text)])
           /\ ~Truthy(arg) => text = <<>>

\* _clean_html has returned for a tag that holds a line break.
CleanHtmlPostconditionWitness ==
    /\ fn = "_clean_html"
    /\ done
    /\ arg = T(<<"<", "a", "\n", ">">>)
    /\ out.ok

\* C19: on every payload whose updated_product_specs, prices, details,
\* details.technology and details.feature_details are each absent, null,
\* an object or a list, each of the four normalisers returns and does not
\* raise.
NormalizersTotal ==
    /\ fn \in {"_extract_specs", "_extract_prices", "_extract_technologies", "_extract_features"}
    /\ done
    /\ arg \in ShapePayloads
    => out.ok

\* _extract_specs has been called on a payload whose updated_product_specs
\* is null.
NormalizersTotalWitness ==
    /\ fn = "_extract_specs"
    /\ done
    /\ arg = JObj([updated_product_specs |-> JNull])

\* C20: one call of execute sends exactly one HTTP request; it returns
\* only when the request succeeded and the body has no errors field, and
\* then the decoded body; on a network or HTTP failure it raises
\* RequestException; when the request succeeded and the body has an errors
\* field it raises GraphQLError carrying the value of that field.
ClientOutcomes ==
    fn = "execute" /\ done =>
        LET HasErrors == arg.body.k = "obj" /\ "errors" \in DOMAIN arg.body.v IN
        /\ posts = 1
        /\ out.ok => arg.http = "ok" /\ ~HasErrors /\ out.v = arg.body
        /\ arg.http # "ok" => ~out.ok /\ out.v.class = "RequestException"
        /\ arg.http = "ok" /\ HasErrors =>
               /\ ~out.ok
               /\ out.v.class = "GraphQLError"
               /\ out.v.errors = arg.body.v.errors

\* The reply {data: null, errors: [boom]} with a success status made
\* execute raise GraphQLError([boom]).
ClientOutcomesWitness ==
    /\ fn = "execute"
    /\ done
    /\ posts = 1
    /\ arg = HttpOk(JObj([data |-> JNull, errors |-> JList(<<JStr("boom")>>)]))
    /\ out = GraphQLError(JList(<<JStr("boom")>>))

\* The text of format_product for the rows of u1 in database, the
\* Technology line being summary.
PlainText(database, summary) ==
    LET product == database.products["u1"]
        priced == SelectSeq(database.prices["u1"], LAMBDA row : Truthy(row.price))
        optional(label, text) == IF text = "" THEN <<>> ELSE <<label \o ": " \o text>>
    IN  join("\n",
            <<"Product: " \o str(product.display_title)>>
            \o optional("Tagline", IF Truthy(product.tagline) THEN str(product.tagline) ELSE "")
            \o <<"URL: " \o str(product.url)>>
            \o <<"UID: " \o str(product.uid)>>
            \o optional("Description",
                        IF Truthy(product.description) THEN str(product.description) ELSE "")
            \o optional("Specifications", str(JStr(format_specs(database.specs["u1"]).v)))
            \o optional("Prices",
                        join("; ", [i \in DOMAIN priced |->
                                       upper(priced[i].region.v) \o ": " \o str(priced[i].price)]))
            \o optional("Technology", summary)
            \o optional("Features", str(JStr(format_features(database.features["u1"]).v))))

\* C21 as stated: the text of format_product is the lines Product,
\* Tagline, URL, UID, Description, Specifications, Prices, Technology,
\* Features in this order, Product, URL and UID always and every other
\* line when its content is not empty; the prices are upper-cased region
\* and price joined by "; ", the technologies "title: content", every one
\* of them, joined by " | ".
PlainTextEveryContent ==
    fn = "format_product" /\ done /\ arg.uid = "u1" =>
        LET technologies == arg.database.technologies["u1"] IN
        out.v.formatted_text.v =
            PlainText(arg.database,
                join(" | ", [i \in DOMAIN technologies |->
                                str(technologies[i].title) \o ": "
                                    \o (IF Truthy(technologies[i].content)
                                        THEN str(technologies[i].content) ELSE "")]))

\* C21: the same, a technology without content being listed by its title
\* alone.
PlainTextLines ==
    fn = "format_product" /\ done /\ arg.uid = "u1" =>
        LET technologies == arg.database.technologies["u1"] IN
        out.v.formatted_text.v =
            PlainText(arg.database,
                join(" | ", [i \in DOMAIN technologies |->
                                IF Truthy(technologies[i].content)
                                THEN str(technologies[i].title) \o ": " \o str(technologies[i].content)
                                ELSE str(technologies[i].title)]))

\* A product with every field and a technology without content was
\* formatted.
PlainTextLinesWitness ==
    /\ fn = "format_product"
    /\ done
    /\ arg.uid = "u1"
    /\ out.v.formatted_text.v =
           "Product: Ski X\nTagline: fast\nURL: /a\nUID: u1\nDescription: d e\n"
               \o "Specifications: Length: 180cm; Use: race, tour\n"
               \o "Prices: NO: 100 NOK; SE: 95 SEK\n"
               \o "Technology: Core: C | Grip | Edge: E\n"
               \o "Features: Base: f, h | Top: g"

\* The rows of specs whose title appears there first and whose title's
\* last row has a value that is not empty.
Summarized(specs) ==
    {i \in DOMAIN specs :
        /\ \A j \in 1..(i - 1) : specs[j].title # specs[i].title
        /\ \E l \in DOMAIN specs :
              /\ specs[l].title = specs[i].title
              /\ \A j \in (l + 1)..Len(specs) : specs[j].title # specs[i].title
              /\ Truthy(specs[l].value)}

\* The value of the last row of specs with the title of row i.
LastValue(specs, i) ==
    specs[CHOOSE l \in DOMAIN specs :
              /\ specs[l].title = specs[i].title
              /\ \A j \in (l + 1)..Len(specs) : specs[j].title # specs[i].title].value

\* C22: the specifications summary shows every title once, at the
\* position where it appeared first and with the value of the last row of
\* that title; a title whose last value is empty is left out.
SharedTitleLastValue ==
    fn = "_format_specs" /\ done =>
        LET kept == Summarized(arg)
            nth(n) == CHOOSE i \in kept : Cardinality({j \in kept : j < i}) = n - 1
        IN  IF kept = {} THEN out = None
            ELSE out = JStr(join("; ", [n \in 1..Cardinality(kept) |->
                                           arg[nth(n)].title.v \o ": " \o LastValue(arg, nth(n)).v]))

\* Length is seen with a, then Use, then Length with b; and Use comes
\* last with an empty value after Length.
SharedTitleLastValueWitness ==
    /\ fn = "_format_specs"
    /\ done
    /\ LET row(title, value) == [spec_id |-> JStr("id"), title |-> JStr(title), value |-> JStr(value)]
       IN  \/ /\ arg = <<row("Length", "a"), row("Use", "a"), row("Length", "b")>>
              /\ out = JStr("Length: b; Use: a")
           \/ /\ arg = <<row("Use", "a"), row("Length", "a"), row("Use", "")>>
              /\ out = JStr("Length: a")

\* The stored products whose uid is in the list uids.
StoredIn(database, uids) ==
    {u \in DOMAIN database.products : \E i \in DOMAIN uids.v : uids.v[i] = JStr(u)}

\* C23: format_products(uids) calls format_product once for every product
\* found and returns the results that are not None in the order of the
\* query; the products found are the stored products whose uid is in
\* uids, and all stored products only when uids is None.
FormatsRequestedProducts ==
    fn = "format_products" /\ done =>
        /\ out.calls = Len(out.query)
        /\ out.formatted =
               SelectSeq([i \in DOMAIN out.query |-> format_product(arg.database, out.query[i])],
                         LAMBDA formatted : formatted # None)
        /\ \A i, j \in DOMAIN out.query : out.query[i] = out.query[j] => i = j
        /\ {out.query[i] : i \in DOMAIN out.query} =
               IF arg.uids = None THEN DOMAIN arg.database.products
               ELSE StoredIn(arg.database, arg.uids)

\* C23 without its last part: one call per product found, the results in
\* the order of the query, and a list of uids that is not empty selects
\* the stored products in it.
FormatsFoundProducts ==
    fn = "format_products" /\ done =>
        /\ out.calls = Len(out.query)
        /\ out.formatted =
               SelectSeq([i \in DOMAIN out.query |-> format_product(arg.database, out.query[i])],
                         LAMBDA formatted : formatted # None)
        /\ Truthy(arg.uids) =>
               {out.query[i] : i \in DOMAIN out.query} = StoredIn(arg.database, arg.uids)

\* format_products([]) formatted a stored product.
FormatsUnrequestedWitness ==
    /\ fn = "format_products"
    /\ done
    /\ arg.uids = JList(<<>>)
    /\ out.formatted # <<>>

\* C24: the categories, the region, the locale and the limit given to the
\* collect command are the values with which the ProductCollector is
\* constructed and collect_products is called.
OptionsHonoured ==
    fn = "main" /\ done =>
        /\ out.ProductCollector.region = arg.region
        /\ out.ProductCollector.locale = arg.locale
        /\ out.collect_products.categories = arg.categories
        /\ out.collect_products.limit = arg.limit

\* What main does: the collector gets the region and the locale of the
\* settings and collects every category without limit, whatever the
\* options are.
OptionsIgnored ==
    fn = "main" /\ done =>
        /\ out.ProductCollector = [region |-> arg.settings.default_region,
                                   locale |-> arg.settings.default_locale]
        /\ out.collect_products = [categories |-> None, limit |-> None]

\* The command was given one category, a limit, and a region and a locale
\* other than the defaults, and ran the collector with none of them.
OptionsIgnoredWitness ==
    /\ fn = "main"
    /\ done
    /\ arg.categories = JList(<<1>>)
    /\ arg.limit = JNum(1)
    /\ arg.region # arg.settings.default_region
    /\ arg.locale # arg.settings.default_locale
    /\ out.collect_products = [categories |-> None, limit |-> None]
    /\ out.ProductCollector.region # arg.region
    /\ out.ProductCollector.locale # arg.locale

\* The first call of collect_product of a run is made.
FirstCollects == Collects /\ \A url \in Urls : calls[url] = 0

\* The dedup sets are locals of the call: both are empty when a run
\* begins, and within a run a URL is in product_urls exactly when
\* collect_product was called for it in this run, so a URL processed by
\* the run before is fetched again.
DedupSetsRunScoped ==
    [][/\ run' # run => collected_uids' = {} /\ product_urls' = {}
       /\ \A url \in Urls : url \in product_urls' <=> calls'[url] > 0]_vars

\* C25: the dedup state is run-scoped (DedupSetsRunScoped), and a later
\* run's result does not depend on the run before it: its first call of
\* collect_product returns what it returns on a collector that has seen no
\* run, i.e. on a new session of the same database.
RunsIndependent ==
    [][/\ run' # run => collected_uids' = {} /\ product_urls' = {}
       /\ \A url \in Urls : url \in product_urls' <=> calls'[url] > 0
       /\ FirstCollects /\ run > 1 =>
              last'.uid = collect_product(SessionLocal(session.committed),
                                          DetailReplies[last'.d]).uid]_vars

\* The first product of the second run is well formed and new, and is
\* skipped because the session still waits for the rollback of a flush
\* that failed in the first run.
RunsDependWitness ==
    /\ run = 2
    /\ \E url \in Urls : calls = [u \in Urls |-> IF u = url THEN 1 ELSE 0]
    /\ last.d # 0
    /\ last.uid = None
    /\ session.state # "active"
    /\ collect_product(SessionLocal(session.committed), DetailReplies[last.d]).uid # None

\* C30: _clean_html is idempotent: cleaning what it returned for a string
\* returns the same string, also when a line break stands between a "<"
\* and its ">".
CleanHtmlIdempotent ==
    fn = "_clean_html" /\ done /\ out.ok => clean_html(out.v) = out

\* The same for the strings in which no line break stands between a "<"
\* and the next ">".
CleanHtmlIdempotentOneLine ==
    /\ fn = "_clean_html"
    /\ done
    /\ out.ok
    /\ arg.k = "text"
    /\ \A i, j \in DOMAIN arg.v :
           i < j /\ arg.v[i] = "<" /\ arg.v[j] = ">" => \A l \in i..j : arg.v[l] # "\n"
    => clean_html(out.v) = out

\* "<\n>" was cleaned to "< >", which is cleaned to "".
CleanHtmlTwiceWitness ==
    /\ fn = "_clean_html"
    /\ done
    /\ arg = T(<<"<", "\n", ">">>)
    /\ out = Ok(T(<<"<", " ", ">">>))
    /\ clean_html(out.v) = Ok(T(<<>>))

\* What _create_product stores for a root attribute without key.
EmptyDefault(attr) == IF attr = "description" THEN T(<<>>) ELSE JStr("")

\* Both upserts of u1 and the upsert on the other database returned u1.
UpsertedTwice ==
    /\ fn = "collect_product"
    /\ done
    /\ out.first.uid = JStr("u1")
    /\ out.updated.uid = JStr("u1")
    /\ out.created.uid = JStr("u1")

\* C26: a root attribute whose key is absent from the payload of an update
\* keeps the value stored before, and is stored as the empty default when
\* the product is created from the same payload.
AbsentRootAttributeKept ==
    UpsertedTwice =>
        \A attr \in RootAttributes \ DOMAIN arg.second.v :
            /\ out.updated.product[1][attr] = out.first.product[1][attr]
            /\ out.created.product[1][attr] = EmptyDefault(attr)

\* The same, the description being kept as _clean_html leaves it when it
\* is cleaned once more.
AbsentRootAttributeCleanedAgain ==
    UpsertedTwice =>
        \A attr \in RootAttributes \ DOMAIN arg.second.v :
            /\ out.updated.product[1][attr] =
                   IF attr = "description" THEN clean_html(out.first.product[1][attr]).v
                   ELSE out.first.product[1][attr]
            /\ out.created.product[1][attr] = EmptyDefault(attr)

\* The update without the keys tagline and description kept "fast" and
\* "d", where the creation from the same payload stored empty values: the
\* two Product rows differ.
AbsentRootAttributeWitness ==
    /\ UpsertedTwice
    /\ RootAttributes \ DOMAIN arg.second.v = {"tagline", "description"}
    /\ out.updated.product[1].tagline = JStr("fast")
    /\ out.updated.product[1].description = T(<<"d">>)
    /\ out.created.product[1].tagline = JStr("")
    /\ out.updated.product # out.created.product

\* The stored description "<a >b" of a payload with a line break in the
\* tag became "b" by an update without the key description.
DescriptionCleanedAgainWitness ==
    /\ UpsertedTwice
    /\ "description" \notin DOMAIN arg.second.v
    /\ out.first.product[1].description = T(<<"<", "a", " ", ">", "b">>)
    /\ out.updated.product[1].description = T(<<"b">>)

\* The URLs of the entries of the page of a grid reply.
PageUrls(reply) ==
    LET response == get_paginated_products(reply)
        products == IF response.ok THEN GridProducts(response.v) ELSE Raise
    IN  IF ~products.ok THEN {}
        ELSE {url \in Urls : \E i \in DOMAIN products.v :
                  products.v[i].k = "obj" /\ Get(products.v[i], "url", None) = JStr(url)}

\* C27: a run issues at most one grid query per category, in list order,
\* each for the first page (skip 0, limit 30) whatever total the response
\* reports; collect_product is called only for entries of these pages.
FirstPageOnly ==
    /\ Len(queries) = Len(fetched)
    /\ Len(queries) <= Len(categories)
    /\ \A i \in DOMAIN queries :
           /\ queries[i] = [categories |-> categories[i], limit |-> 30, skip |-> 0]
           /\ \A j \in DOMAIN queries : queries[i].categories = queries[j].categories => i = j
    /\ rec \/ replay =>
           \A url \in Urls :
               calls[url] > 0 =>
                   \E i \in DOMAIN queries :
                       tape.grid[i] # 0 /\ url \in PageUrls(GridReplies[tape.grid[i]])

\* The grid of the only category reported a total of 31 entries, more
\* than one page, and the run ended after one grid query, having called
\* collect_product for the entries of that page.
FirstPageOnlyWitness ==
    /\ pc = "Done"
    /\ rec
    /\ Len(categories) = 1
    /\ Len(queries) = 1
    /\ tape.grid[1] = 5
    /\ calls["/a"] = 1
    /\ calls["/b"] = 1

LimitZeroIsNoLimit ==
    [][limit' \in {None, JNum(0)} =>
           /\ ~LimitReached'
           /\ pc = "CategoryLoop" /\ pc' = "Done" => catIdx > Len(categories)
           /\ pc = "ProductLoop" /\ pc' = "CategoryLoop" =>
                  \/ prodIdx > Len(products_data)
                  \/ products_data[prodIdx].k # "obj"
           /\ pc' = "Done" => fetched' = categories']_vars

\* A run with limit 0 fetched both categories and returned two uids.
LimitZeroIsNoLimitWitness ==
    /\ pc = "Done"
    /\ limit = JNum(0)
    /\ Len(categories) = 2
    /\ fetched = categories
    /\ Len(result) = 2

====
